---- MODULE Spec2Model ----
(***************************************************************************)
(* Model of app.py, a Streamlit script that values a share by discounted   *)
(* cash flow.                                                              *)
(*                                                                         *)
(* Numbers.  Rates (growth, discount, beta, debt/equity, the 1.2 and 0.8   *)
(* thresholds) are fixed-point with Scale = 1000 steps per unit, so 0.05   *)
(* is 50 and 1.2 is 1200.  Money (cash flows, values, prices) and share    *)
(* counts are whole units.  Products and quotients are rounded to the      *)
(* nearest step, as floating point rounds to the nearest double.  A value  *)
(* that a division can make non-finite is a record: Fin(n), PInf, NInf or  *)
(* NaN, with numpy's float64 rules for x / 0.                              *)
(***************************************************************************)
EXTENDS Integers, Sequences, FiniteSets, TLC

VARIABLES
    pc,              \* position of the script run
    inputs,          \* the sidebar widgets' values (lines 34-43)
    provider,        \* what Yahoo Finance answers for the ticker
    financial_data,  \* line 148 / 152
    wacc,            \* line 178
    results,         \* line 206
    recommendation,  \* lines 230-241
    sensitivity,     \* lines 291-304
    shown,           \* what the page has displayed so far
    calls,           \* which of the script's functions have been invoked
    fn,              \* direct call of one function: which one
    args,            \*   its arguments
    ret              \*   what it returned

vars == <<pc, inputs, provider, financial_data, wacc, results, recommendation, sensitivity, shown, calls, fn, args, ret>>

scriptVars == <<pc, inputs, provider, financial_data, wacc, results, recommendation, sensitivity, shown, calls>>

callVars == <<fn, args, ret>>

----------------------------------------------------------------------------
(* Fixed-point and float64 arithmetic *)

Scale == 10 ^ 3

Abs(n) == IF n < 0 THEN -n ELSE n

Sgn(n) == IF n < 0 THEN -1 ELSE IF n > 0 THEN 1 ELSE 0

\* n / d to the nearest integer, n >= 0, d > 0
RoundDiv(n, d) == (n + d \div 2) \div d

\* a * r for a rate r: |a| * |r| / Scale, rounded, without forming |a| * |r|
MulFP(a, r) ==
    LET x == Abs(a)
        y == Abs(r)
    IN  Sgn(a) * Sgn(r) * ((x \div Scale) * y + RoundDiv((x % Scale) * y, Scale))

\* a / r for a rate r # 0: |a| * Scale / |r|, rounded
DivFP(a, r) ==
    LET x == Abs(a)
        y == Abs(r)
    IN  Sgn(a) * Sgn(r) * ((x \div y) * Scale + RoundDiv((x % y) * Scale, y))

\* r ** n for a rate r
RECURSIVE PowFP(_, _)
PowFP(r, n) == IF n <= 0 THEN Scale ELSE MulFP(PowFP(r, n - 1), r)

RECURSIVE SumSeq(_)
SumSeq(s) == IF Len(s) = 0 THEN 0 ELSE s[1] + SumSeq(Tail(s))

Fin(n) == [k |-> "fin", v |-> n]

PInf == [k |-> "inf", v |-> 1]

NInf == [k |-> "inf", v |-> -1]

NaN == [k |-> "nan", v |-> 0]

IsFinite(x) == x.k = "fin"

\* float64 x / 0.0: the sign of x decides, 0 / 0 is nan
DivByZero(x) ==
    CASE x.k = "nan" -> NaN
      [] x.k = "inf" -> x
      [] x.v > 0 -> PInf
      [] x.v < 0 -> NInf
      [] OTHER -> NaN

\* float64 x divided by a rate r (r may be zero or negative)
FDivRate(x, r) ==
    CASE r = 0 -> DivByZero(x)
      [] x.k = "nan" -> NaN
      [] x.k = "inf" -> [k |-> "inf", v |-> x.v * Sgn(r)]
      [] OTHER -> Fin(DivFP(x.v, r))

\* float64 x divided by a whole number n (n may be zero)
FDivInt(x, n) ==
    CASE n = 0 -> DivByZero(x)
      [] x.k = "nan" -> NaN
      [] x.k = "inf" -> [k |-> "inf", v |-> x.v * Sgn(n)]
      [] OTHER -> Fin(Sgn(x.v) * Sgn(n) * RoundDiv(Abs(x.v), Abs(n)))

\* finite n + float64 x
FAddInt(n, x) == IF x.k = "fin" THEN Fin(n + x.v) ELSE x

\* float64 x > p * k for a whole p >= 0 and a rate k; every comparison with nan is false
FGtTimes(x, p, k) ==
    CASE x.k = "nan" -> FALSE
      [] x.k = "inf" -> x.v > 0
      [] OTHER -> x.v > (p * k) \div Scale

----------------------------------------------------------------------------
(* Python values *)

\* a pandas Series (most recent value first), or None
Series(s) == [isNone |-> FALSE, vals |-> s]

NoneSeries == [isNone |-> TRUE, vals |-> <<>>]

\* a - b on two Series, element by element
SeriesSub(a, b) == [i \in 1..Len(a) |-> a[i] - b[i]]

\* info.get(key, default): a key of the provider's info is <<>> when absent, <<v>> when present
InfoGet(field, default) == IF field = <<>> THEN default ELSE field[1]

\* what dcf_valuation hands back that is not its dict: None, or the exception it raises
NoResult(kind) ==
    [kind |-> kind, intrinsic_value |-> NaN, enterprise_value |-> NaN, current_fcf |-> 0,
     present_values |-> <<>>, terminal_pv |-> NaN, future_cash_flows |-> <<>>,
     terminal_value |-> NaN]

\* Python truth of dcf_valuation's return value: a non-empty dict is true, None is false
Truthy(r) == r.kind = "dict"

NoneData ==
    [isNone |-> TRUE, fcf |-> NoneSeries, current_price |-> 0, shares_outstanding |-> 0,
     beta |-> 0, debt |-> 0, cash |-> 0]

----------------------------------------------------------------------------
(* calculate_wacc, lines 88-99 *)

risk_free_rate_default == 42

market_return_default == 90

tax_rate_default == 250

calculate_wacc(beta, risk_free_rate, market_return, debt_to_equity, cost_of_debt, tax_rate) ==
    LET cost_of_equity == risk_free_rate + MulFP(beta, market_return - risk_free_rate)
        equity_weight == DivFP(Scale, Scale + debt_to_equity)
        debt_weight == DivFP(debt_to_equity, Scale + debt_to_equity)
    IN  MulFP(equity_weight, cost_of_equity)
          + MulFP(MulFP(debt_weight, cost_of_debt), Scale - tax_rate)

----------------------------------------------------------------------------
(* dcf_valuation, lines 102-143 *)

\* np.exp(-0.1 * year), to the nearest step, for year in 1..20
ExpNeg01(year) ==
    <<905, 819, 741, 670, 607, 549, 497, 449, 407, 368,
      333, 301, 273, 247, 223, 202, 183, 165, 150, 135>>[year]

\* mutant: the growth rate is not reduced with the year
YearGrowth_constant(growth_rate, year) == growth_rate

\* line 113
YearGrowth(growth_rate, year) == MulFP(growth_rate, ExpNeg01(year))

\* line 114
FutureFcf(current_fcf, growth_rate, year) ==
    MulFP(current_fcf, PowFP(Scale + YearGrowth(growth_rate, year), year))

\* lines 110-115
FutureCashFlows(current_fcf, growth_rate, years_projection) ==
    [year \in 1..years_projection |-> FutureFcf(current_fcf, growth_rate, year)]

\* line 118, given future_cash_flows[-1]
TerminalValue(last_fcf, terminal_growth, discount_rate) ==
    FDivRate(Fin(MulFP(last_fcf, Scale + terminal_growth)), discount_rate - terminal_growth)

\* lines 121-124; Python's index i runs from 0 and discounts by i + 1
PresentValues(future_cash_flows, discount_rate) ==
    [i \in 1..Len(future_cash_flows) |->
        DivFP(future_cash_flows[i], PowFP(Scale + discount_rate, i))]

\* line 127
TerminalPV(terminal_value, discount_rate, years_projection) ==
    FDivRate(terminal_value, PowFP(Scale + discount_rate, years_projection))

\* mutant: a net-debt term enters the enterprise value
EnterpriseValue_netOfDebt(present_values, terminal_pv) ==
    FAddInt(SumSeq(present_values) - 200, terminal_pv)

\* line 130
EnterpriseValue(present_values, terminal_pv) == FAddInt(SumSeq(present_values), terminal_pv)

\* line 133
IntrinsicValuePerShare(enterprise_value, shares_outstanding) ==
    FDivInt(enterprise_value, shares_outstanding)

dcf_valuation(fcf_data, growth_rate, terminal_growth, discount_rate, years_projection, shares_outstanding) ==
    IF fcf_data.isNone \/ Len(fcf_data.vals) = 0 THEN NoResult("None")
    ELSE
    LET current_fcf == fcf_data.vals[1]
        future_cash_flows == FutureCashFlows(current_fcf, growth_rate, years_projection)
    IN  IF Len(future_cash_flows) = 0 THEN NoResult("IndexError")  \* future_cash_flows[-1]
        ELSE
        LET terminal_value ==
                TerminalValue(future_cash_flows[Len(future_cash_flows)], terminal_growth, discount_rate)
            present_values == PresentValues(future_cash_flows, discount_rate)
            terminal_pv == TerminalPV(terminal_value, discount_rate, years_projection)
            enterprise_value == EnterpriseValue(present_values, terminal_pv)
        IN  [kind |-> "dict",
             intrinsic_value |-> IntrinsicValuePerShare(enterprise_value, shares_outstanding),
             enterprise_value |-> enterprise_value,
             current_fcf |-> current_fcf,
             present_values |-> present_values,
             terminal_pv |-> terminal_pv,
             future_cash_flows |-> future_cash_flows,
             terminal_value |-> terminal_value]

----------------------------------------------------------------------------
(* The recommendation, lines 230-241 *)

StrongBuyFactor == 1200

HoldFactor == 800

\* mutant: the comparison with 1.2 times the price is not strict
Recommendation_inclusive(intrinsic_value, current_price) ==
    IF \/ FGtTimes(intrinsic_value, current_price, StrongBuyFactor)
       \/ /\ IsFinite(intrinsic_value)
          /\ intrinsic_value.v * Scale = current_price * StrongBuyFactor
    THEN "FUERTE COMPRA"
    ELSE IF FGtTimes(intrinsic_value, current_price, Scale) THEN "COMPRA"
    ELSE IF FGtTimes(intrinsic_value, current_price, HoldFactor) THEN "MANTENER"
    ELSE "VENDE"

Recommendation(intrinsic_value, current_price) ==
    IF FGtTimes(intrinsic_value, current_price, StrongBuyFactor) THEN "FUERTE COMPRA"
    ELSE IF FGtTimes(intrinsic_value, current_price, Scale) THEN "COMPRA"
    ELSE IF FGtTimes(intrinsic_value, current_price, HoldFactor) THEN "MANTENER"
    ELSE "VENDE"

----------------------------------------------------------------------------
(* The script: one run, top to bottom *)

YearsMin == 5

YearsDefault == 10

\* the widgets' values of one run (lines 38-43), a few positions of each slider
InputChoices ==
    [years_projection : {YearsMin, YearsDefault},
     growth_rate : {50, 200},
     terminal_growth : {0, 25, 42, 50},
     discount_rate : {50, 150},
     debt_to_equity : {0, 2000},
     cost_of_debt : {20}]

NoCashFlow ==
    [rows |-> {}, free_cash_flow |-> <<>>, operating_cash_flow |-> <<>>,
     capital_expenditure |-> <<>>]

\* stock.cashflow: the rows the statement has and their values
CashFlowChoices ==
    {NoCashFlow,
     [NoCashFlow EXCEPT !.rows = {"Net Income"}],
     [NoCashFlow EXCEPT !.rows = {"Operating Cash Flow"}, !.operating_cash_flow = <<1200, 1100>>],
     [NoCashFlow EXCEPT !.rows = {"Operating Cash Flow", "Capital Expenditure"},
                        !.operating_cash_flow = <<1200, 1100>>,
                        !.capital_expenditure = <<-200, -150>>]}
    \cup {[rows |-> {"Free Cash Flow", "Operating Cash Flow", "Capital Expenditure"},
           free_cash_flow |-> <<v, 900>>, operating_cash_flow |-> <<1200, 1100>>,
           capital_expenditure |-> <<-200, -150>>] : v \in {1000, 0, -500}}

\* stock.info: each key absent (<<>>) or present
InfoChoices ==
    {[currentPrice |-> p[1], regularMarketPrice |-> p[2], sharesOutstanding |-> s,
      beta |-> b, totalDebt |-> <<300>>, cash |-> <<100>>] :
        p \in {<< <<>>, <<>> >>, << <<>>, <<1200>> >>, << <<3000>>, <<1200>> >>},
        s \in {<<>>, <<10>>},
        b \in {<<>>, <<0>>, <<300>>}}

ProviderChoices ==
    [status : {"ok"}, cash_flow : CashFlowChoices, info : InfoChoices]
    \cup [status : {"yf_raises", "cache_raises"}, cash_flow : {NoCashFlow},
          info : {CHOOSE i \in InfoChoices : TRUE}]

\* mutant: an operating cash flow alone is taken for the free cash flow
ExtractFcf_operatingOnly(cash_flow) ==
    IF cash_flow.rows # {}
    THEN IF "Free Cash Flow" \in cash_flow.rows
         THEN Series(cash_flow.free_cash_flow)
         ELSE IF "Operating Cash Flow" \in cash_flow.rows
              THEN Series(cash_flow.operating_cash_flow)
              ELSE NoneSeries
    ELSE NoneSeries

\* lines 57-63
ExtractFcf(cash_flow) ==
    IF cash_flow.rows # {}
    THEN IF "Free Cash Flow" \in cash_flow.rows
         THEN Series(cash_flow.free_cash_flow)
         ELSE IF "Operating Cash Flow" \in cash_flow.rows /\ "Capital Expenditure" \in cash_flow.rows
              THEN Series(SeriesSub(cash_flow.operating_cash_flow, cash_flow.capital_expenditure))
              ELSE NoneSeries
    ELSE NoneSeries

\* get_financial_data, lines 47-85: the record, or None when the provider raised
get_financial_data(p) ==
    IF p.status = "yf_raises" THEN NoneData
    ELSE [isNone |-> FALSE,
          fcf |-> ExtractFcf(p.cash_flow),
          current_price |-> InfoGet(p.info.currentPrice, InfoGet(p.info.regularMarketPrice, 0)),
          shares_outstanding |-> InfoGet(p.info.sharesOutstanding, 0),
          beta |-> InfoGet(p.info.beta, Scale),
          debt |-> InfoGet(p.info.totalDebt, 0),
          cash |-> InfoGet(p.info.cash, 0)]

\* mutant: the guard forgets that fcf may be None
HasFcf_anyRecord(fd) == ~fd.isNone

\* line 154: financial_data and financial_data['fcf'] is not None
HasFcf(fd) == ~fd.isNone /\ ~fd.fcf.isNone

\* line 342: financial_data and financial_data['fcf'] is None
HasNoFcf(fd) == ~fd.isNone /\ fd.fcf.isNone

\* lines 178-182
WaccCall(inp, fd) ==
    calculate_wacc(fd.beta, risk_free_rate_default, market_return_default,
                   inp.debt_to_equity, inp.cost_of_debt, tax_rate_default)

\* mutant: the slider's value is passed
DiscountRateArg_slider(inp, w) == inp.discount_rate

\* line 210: the discount_rate argument of the valuation
DiscountRateArg(inp, w) == w

\* lines 206-213
DcfCall(inp, fd, w) ==
    dcf_valuation(fd.fcf, inp.growth_rate, inp.terminal_growth, DiscountRateArg(inp, w),
                  inp.years_projection, fd.shares_outstanding)

\* lines 291-304
SensitivityTable(inp, fd, w) ==
    LET sens_growth == <<MulFP(inp.growth_rate, 500), inp.growth_rate, MulFP(inp.growth_rate, 1500)>>
        d0 == DiscountRateArg(inp, w)
        sens_discount == <<MulFP(d0, 800), d0, MulFP(d0, 1200)>>
    IN  [g \in 1..3 |-> [d \in 1..3 |->
            LET sens_result == dcf_valuation(fd.fcf, sens_growth[g], inp.terminal_growth,
                                             sens_discount[d], inp.years_projection,
                                             fd.shares_outstanding)
            IN  IF Truthy(sens_result) THEN sens_result.intrinsic_value ELSE Fin(0)]]

NoTable == <<>>

NoCall == [none |-> TRUE]

NoRet == [returned |-> FALSE, label |-> "", result |-> NoResult("unset")]

Init ==
    /\ pc = "fetch"
    /\ inputs \in InputChoices
    /\ provider \in ProviderChoices
    /\ financial_data = NoneData
    /\ wacc = 0
    /\ results = NoResult("unset")
    /\ recommendation = ""
    /\ sensitivity = NoTable
    /\ shown = {}
    /\ calls = {}
    /\ fn = "script"
    /\ args = NoCall
    /\ ret = NoRet

\* line 148: the fetch returns its record
FetchRecord ==
    /\ pc = "fetch"
    /\ provider.status = "ok"
    /\ financial_data' = get_financial_data(provider)
    /\ pc' = "guard"
    /\ UNCHANGED <<inputs, provider, wacc, results, recommendation, sensitivity, shown, calls>>
    /\ UNCHANGED callVars

\* lines 83-85: the provider raised inside get_financial_data, which reports it and returns None
FetchCaught ==
    /\ pc = "fetch"
    /\ provider.status = "yf_raises"
    /\ financial_data' = get_financial_data(provider)
    /\ shown' = shown \cup {"error_fetch"}
    /\ pc' = "guard"
    /\ UNCHANGED <<inputs, provider, wacc, results, recommendation, sensitivity, calls>>
    /\ UNCHANGED callVars

\* lines 149-152: the call itself raised
FetchFailed ==
    /\ pc = "fetch"
    /\ provider.status = "cache_raises"
    /\ financial_data' = NoneData
    /\ shown' = shown \cup {"error_connect", "info_retry"}
    /\ pc' = "guard"
    /\ UNCHANGED <<inputs, provider, wacc, results, recommendation, sensitivity, calls>>
    /\ UNCHANGED callVars

\* lines 154-175
EnterValuation ==
    /\ pc = "guard"
    /\ HasFcf(financial_data)
    /\ shown' = shown \cup {"company_info"}
    /\ pc' = "wacc"
    /\ UNCHANGED <<inputs, provider, financial_data, wacc, results, recommendation, sensitivity, calls>>
    /\ UNCHANGED callVars

\* lines 342-343
NoFcfError ==
    /\ pc = "guard"
    /\ ~HasFcf(financial_data)
    /\ HasNoFcf(financial_data)
    /\ shown' = shown \cup {"error_no_fcf"}
    /\ pc' = "footer"
    /\ UNCHANGED <<inputs, provider, financial_data, wacc, results, recommendation, sensitivity, calls>>
    /\ UNCHANGED callVars

\* lines 344-345
NoDataError ==
    /\ pc = "guard"
    /\ ~HasFcf(financial_data)
    /\ ~HasNoFcf(financial_data)
    /\ shown' = shown \cup {"error_no_data"}
    /\ pc' = "footer"
    /\ UNCHANGED <<inputs, provider, financial_data, wacc, results, recommendation, sensitivity, calls>>
    /\ UNCHANGED callVars

\* lines 178-202; line 201 reads fcf.iloc[0]
CalcWacc ==
    /\ pc = "wacc"
    /\ wacc' = WaccCall(inputs, financial_data)
    /\ calls' = calls \cup {"calculate_wacc"}
    /\ IF Len(financial_data.fcf.vals) = 0
       THEN pc' = "crashed" /\ shown' = shown
       ELSE pc' = "dcf" /\ shown' = shown \cup {"parameters"}
    /\ UNCHANGED <<inputs, provider, financial_data, results, recommendation, sensitivity>>
    /\ UNCHANGED callVars

\* lines 205-213
Valuate ==
    /\ pc = "dcf"
    /\ results' = DcfCall(inputs, financial_data, wacc)
    /\ calls' = calls \cup {"dcf_valuation"}
    /\ pc' = IF results'.kind = "IndexError" THEN "crashed" ELSE "results"
    /\ UNCHANGED <<inputs, provider, financial_data, wacc, recommendation, sensitivity, shown>>
    /\ UNCHANGED callVars

\* lines 215-286 and 339-340
ShowResults ==
    /\ pc = "results"
    /\ IF Truthy(results)
       THEN /\ recommendation' = Recommendation(results.intrinsic_value, financial_data.current_price)
            /\ shown' = shown \cup {"valuation", "recommendation", "projection_chart", "breakdown"}
            /\ pc' = "sensitivity"
       ELSE /\ recommendation' = recommendation
            /\ shown' = shown \cup {"error_could_not_compute"}
            /\ pc' = "footer"
    /\ UNCHANGED <<inputs, provider, financial_data, wacc, results, sensitivity, calls>>
    /\ UNCHANGED callVars

\* lines 288-337
SensitivitySweep ==
    /\ pc = "sensitivity"
    /\ sensitivity' = SensitivityTable(inputs, financial_data, wacc)
    /\ shown' = shown \cup {"sensitivity_table", "explanation"}
    /\ pc' = "footer"
    /\ UNCHANGED <<inputs, provider, financial_data, wacc, results, recommendation, calls>>
    /\ UNCHANGED callVars

\* lines 347-353
Footer ==
    /\ pc = "footer"
    /\ shown' = shown \cup {"footer"}
    /\ pc' = "done"
    /\ UNCHANGED <<inputs, provider, financial_data, wacc, results, recommendation, sensitivity, calls>>
    /\ UNCHANGED callVars

Next ==
    \/ FetchRecord
    \/ FetchCaught
    \/ FetchFailed
    \/ EnterValuation
    \/ NoFcfError
    \/ NoDataError
    \/ CalcWacc
    \/ Valuate
    \/ ShowResults
    \/ SensitivitySweep
    \/ Footer

Spec == Init /\ [][Next]_vars

----------------------------------------------------------------------------
(* dcf_valuation and the recommendation applied directly to arguments *)

MaxYears == 5

MaxValue == 13

MaxPrice == 10

\* arguments of dcf_valuation: a Series or None, rates below, at and above each other
DcfArgChoices ==
    [fcf_data : {NoneSeries, Series(<<>>), Series(<<1000>>), Series(<<700, 1000>>),
                 Series(<<0>>), Series(<<-500>>)},
     growth_rate : {0, 50, 200},
     terminal_growth : {0, 25, 50},
     discount_rate : {5, 25, 50, 100, 150},
     years_projection : 0..MaxYears,
     shares_outstanding : {0, 10}]

\* an intrinsic value per share and a current price
RecArgChoices ==
    [intrinsic_value : {Fin(n) : n \in -1..MaxValue} \cup {PInf, NInf, NaN},
     current_price : 0..MaxPrice]

InitFn ==
    /\ pc = "idle"
    /\ inputs = CHOOSE i \in InputChoices : TRUE
    /\ provider = CHOOSE p \in ProviderChoices : p.status = "cache_raises"
    /\ financial_data = NoneData
    /\ wacc = 0
    /\ results = NoResult("unset")
    /\ recommendation = ""
    /\ sensitivity = NoTable
    /\ shown = {}
    /\ calls = {}
    /\ \/ fn = "dcf_valuation" /\ args \in DcfArgChoices
       \/ fn = "recommendation" /\ args \in RecArgChoices
    /\ ret = NoRet

CallDcf ==
    /\ fn = "dcf_valuation"
    /\ ~ret.returned
    /\ ret' = [returned |-> TRUE, label |-> "",
               result |-> dcf_valuation(args.fcf_data, args.growth_rate, args.terminal_growth,
                                        args.discount_rate, args.years_projection,
                                        args.shares_outstanding)]
    /\ UNCHANGED <<fn, args>>
    /\ UNCHANGED scriptVars

CallRecommendation ==
    /\ fn = "recommendation"
    /\ ~ret.returned
    /\ ret' = [returned |-> TRUE,
               label |-> Recommendation(args.intrinsic_value, args.current_price),
               result |-> NoResult("unset")]
    /\ UNCHANGED <<fn, args>>
    /\ UNCHANGED scriptVars

NextFn ==
    \/ CallDcf
    \/ CallRecommendation

SpecFn == InitFn /\ [][NextFn]_vars

----------------------------------------------------------------------------
(* Claims *)

\* the cash-flow statement is empty or has no resolvable free-cash-flow line item
Unresolvable(cash_flow) ==
    \/ cash_flow.rows = {}
    \/ /\ "Free Cash Flow" \notin cash_flow.rows
       /\ ~("Operating Cash Flow" \in cash_flow.rows /\ "Capital Expenditure" \in cash_flow.rows)

\* C1: when the valuation ran on a positive base cash flow and a positive share
\* count with terminal_growth >= the discount rate passed (the WACC), the terminal value
\* is the one of the clamped terminal growth max(0, discount_rate - 0.01): the
\* denominator is positive and the terminal value is finite and not negative.
C1_TerminalGrowthClamped ==
    (/\ Truthy(results)
     /\ results.current_fcf > 0
     /\ financial_data.shares_outstanding > 0
     /\ inputs.terminal_growth >= wacc)
    => LET used == IF wacc - 10 > 0 THEN wacc - 10 ELSE 0
           last == results.future_cash_flows[Len(results.future_cash_flows)]
       IN  /\ wacc - used > 0
           /\ results.terminal_value = FDivRate(Fin(MulFP(last, Scale + used)), wacc - used)
           /\ IsFinite(results.terminal_value)
           /\ results.terminal_value.v >= 0

\* C2 (as amended): for a current price > 0 the recommendation follows the ratio
\* intrinsic value / current price: ratio > 1.2 FUERTE COMPRA; 1.0 < ratio <= 1.2
\* COMPRA; 0.8 < ratio <= 1.0 MANTENER; ratio <= 0.8 VENDE, and VENDE as well for an
\* intrinsic value that is not a number.  Ratio exactly 1.2 is COMPRA, exactly 0.8 VENDE.
C2_RecommendationByRatio ==
    (fn = "recommendation" /\ ret.returned /\ args.current_price > 0)
    => LET x == args.intrinsic_value
           p == args.current_price
       IN  ret.label =
             CASE x.k = "nan" -> "VENDE"
               [] x.k = "inf" -> (IF x.v > 0 THEN "FUERTE COMPRA" ELSE "VENDE")
               [] x.k = "fin" /\ 10 * x.v > 12 * p -> "FUERTE COMPRA"
               [] x.k = "fin" /\ 10 * x.v <= 12 * p /\ x.v > p -> "COMPRA"
               [] x.k = "fin" /\ x.v <= p /\ 10 * x.v > 8 * p -> "MANTENER"
               [] x.k = "fin" /\ 10 * x.v <= 8 * p -> "VENDE"

\* C2 witness: the ratio is exactly 0.8 and the recommendation is VENDE
C2_Witness ==
    /\ fn = "recommendation" /\ ret.returned
    /\ args.current_price > 0
    /\ args.intrinsic_value.k = "fin"
    /\ 10 * args.intrinsic_value.v = 8 * args.current_price
    /\ ret.label = "VENDE"

\* C2 as stated: 0.8 <= ratio <= 1.0 is MANTENER and only ratio < 0.8 is VENDE
C2_OriginalRatioTable ==
    (fn = "recommendation" /\ ret.returned /\ args.current_price > 0 /\ args.intrinsic_value.k = "fin")
    => LET v == args.intrinsic_value.v
           p == args.current_price
       IN  ret.label =
             CASE 10 * v > 12 * p -> "FUERTE COMPRA"
               [] 10 * v <= 12 * p /\ v > p -> "COMPRA"
               [] v <= p /\ 10 * v >= 8 * p -> "MANTENER"
               [] 10 * v < 8 * p -> "VENDE"

\* C3: a valuation of a base free cash flow <= 0 or of shares_outstanding <= 0 returns
\* no valuation result.
C3_RejectsNonPositive ==
    (/\ "dcf_valuation" \in calls
     /\ \/ financial_data.fcf.vals[1] <= 0
        \/ financial_data.shares_outstanding <= 0)
    => ~Truthy(results)

\* C4 (as amended): when the provider's cash-flow statement is empty or has no
\* resolvable free-cash-flow line item, no base FCF is estimated: the record's fcf is
\* None, neither calculate_wacc nor dcf_valuation runs, no valuation is shown and the
\* run ends with the 'no FCF' error.
C4_NoFcfNoValuation ==
    (pc = "done" /\ provider.status = "ok" /\ Unresolvable(provider.cash_flow))
    => /\ financial_data.fcf.isNone
       /\ calls = {}
       /\ results.kind = "unset"
       /\ "valuation" \notin shown
       /\ "error_no_fcf" \in shown

\* C4 witness: a statement with an operating cash flow but no capital expenditure, a
\* price and a share count; the run has ended
C4_Witness ==
    /\ pc = "done"
    /\ provider.status = "ok"
    /\ provider.cash_flow.rows = {"Operating Cash Flow"}
    /\ financial_data.current_price > 0
    /\ financial_data.shares_outstanding > 0
    /\ "error_no_fcf" \in shown

\* C4 as stated: with no resolvable line item the valuation proceeds on the base FCF
\* current_price * shares_outstanding * 0.05
C4_FallbackFcf ==
    (pc = "done" /\ provider.status = "ok" /\ Unresolvable(provider.cash_flow))
    => /\ Truthy(results)
       /\ results.current_fcf =
            MulFP(financial_data.current_price * financial_data.shares_outstanding, 50)

\* C5 (as amended): for every year t in 1..years_projection the projected cash flow
\* at index t-1 is base_fcf * (1 + growth_rate * e^(-0.1 t))^t, the growth rate decaying
\* with the year, and the terminal value is computed from the last projected cash flow.
C5_DecayingProjection ==
    (fn = "dcf_valuation" /\ ret.returned /\ Truthy(ret.result))
    => LET r == ret.result
           base == args.fcf_data.vals[1]
           n == args.years_projection
       IN  /\ Len(r.future_cash_flows) = n
           /\ \A t \in 1..n :
                r.future_cash_flows[t] =
                    MulFP(base, PowFP(Scale + MulFP(args.growth_rate, ExpNeg01(t)), t))
           /\ r.terminal_value =
                FDivRate(Fin(MulFP(r.future_cash_flows[n], Scale + args.terminal_growth)),
                         args.discount_rate - args.terminal_growth)

\* C5 witness: base 1000 and growth 0.05 over at least two years give 1045 in year 1
C5_Witness ==
    /\ fn = "dcf_valuation" /\ ret.returned /\ Truthy(ret.result)
    /\ args.fcf_data.vals[1] = 1000
    /\ args.growth_rate = 50
    /\ args.years_projection >= 2
    /\ ret.result.future_cash_flows[1] = 1045

\* C5 as stated, on valid arguments: the same growth_rate in every year
C5_ConstantGrowth ==
    (/\ fn = "dcf_valuation" /\ ret.returned /\ Truthy(ret.result)
     /\ args.fcf_data.vals[1] > 0 /\ args.shares_outstanding > 0
     /\ args.discount_rate > args.terminal_growth)
    => \A t \in 1..args.years_projection :
            ret.result.future_cash_flows[t] =
                MulFP(args.fcf_data.vals[1], PowFP(Scale + args.growth_rate, t))

\* C6: every result of dcf_valuation has present_values[i] = future_cash_flows[i] /
\* (1 + discount_rate)^(i+1), terminal_pv = terminal_value / (1 + discount_rate)^years
\* and enterprise_value = sum(present_values) + terminal_pv, with no other term.
C6_EnterpriseValueAdditive ==
    (fn = "dcf_valuation" /\ ret.returned /\ Truthy(ret.result))
    => LET r == ret.result
           d == args.discount_rate
       IN  /\ Len(r.present_values) = Len(r.future_cash_flows)
           /\ \A i \in 1..Len(r.future_cash_flows) :
                r.present_values[i] = DivFP(r.future_cash_flows[i], PowFP(Scale + d, i))
           /\ r.terminal_pv = FDivRate(r.terminal_value, PowFP(Scale + d, args.years_projection))
           /\ r.enterprise_value = FAddInt(SumSeq(r.present_values), r.terminal_pv)

\* C6 witness: a finite result over at least two years of positive cash flows
C6_Witness ==
    /\ fn = "dcf_valuation" /\ ret.returned /\ Truthy(ret.result)
    /\ args.years_projection >= 2
    /\ args.fcf_data.vals[1] > 0
    /\ IsFinite(ret.result.enterprise_value)
    /\ ret.result.enterprise_value.v > ret.result.terminal_pv.v
    /\ ret.result.terminal_pv.v > 0

\* C7: dcf_valuation with years_projection = 0 and otherwise valid arguments is either
\* rejected as invalid input or returns empty sequences with enterprise_value =
\* terminal_pv; it does not end in an unhandled failure.
C7_ZeroYearsDefined ==
    (/\ fn = "dcf_valuation" /\ ret.returned
     /\ args.years_projection = 0
     /\ ~args.fcf_data.isNone /\ Len(args.fcf_data.vals) > 0
     /\ args.fcf_data.vals[1] > 0 /\ args.shares_outstanding > 0
     /\ args.discount_rate > args.terminal_growth)
    => \/ ret.result.kind = "InvalidInput"
       \/ /\ Truthy(ret.result)
          /\ ret.result.future_cash_flows = <<>>
          /\ ret.result.present_values = <<>>
          /\ ret.result.enterprise_value = ret.result.terminal_pv

\* C8: with a positive base cash flow and share count, each row of the sensitivity
\* table (discount rates 0.8, 1 and 1.2 times the WACC, all else fixed) never
\* increases from one column to the next.
C8_SensitivityRowsDecrease ==
    (/\ pc = "done"
     /\ "sensitivity_table" \in shown
     /\ results.current_fcf > 0
     /\ financial_data.shares_outstanding > 0)
    => \A g \in 1..3 : \A d \in 1..2 :
          LET lo == sensitivity[g][d]
              hi == sensitivity[g][d + 1]
          IN  /\ lo.k # "nan" /\ hi.k # "nan"
              /\ \/ hi.k = "inf" /\ hi.v < 0
                 \/ lo.k = "inf" /\ lo.v > 0
                 \/ hi.k = "fin" /\ lo.k = "fin" /\ hi.v <= lo.v

\* C9: the 'Tasa de descuento (WACC %)' slider does not influence the output: the
\* results are those of dcf_valuation at calculate_wacc(beta, 0.042, 0.09,
\* debt_to_equity, cost_of_debt, 0.25), and a run that differs only in the slider
\* value yields the same results, recommendation and sensitivity table.
C9_SliderIgnored ==
    (pc = "done" /\ "dcf_valuation" \in calls)
    => LET fd == financial_data
       IN  /\ results =
                dcf_valuation(fd.fcf, inputs.growth_rate, inputs.terminal_growth,
                              calculate_wacc(fd.beta, 42, 90, inputs.debt_to_equity,
                                             inputs.cost_of_debt, 250),
                              inputs.years_projection, fd.shares_outstanding)
           /\ \A s \in {50, 100, 150} :
                LET other == [inputs EXCEPT !.discount_rate = s]
                    w == WaccCall(other, fd)
                    r == DcfCall(other, fd, w)
                IN  /\ r = results
                    /\ Truthy(r) =>
                         /\ Recommendation(r.intrinsic_value, fd.current_price) = recommendation
                         /\ SensitivityTable(other, fd, w) = sensitivity

\* C9 witness: a finished valuation whose slider value differs from the WACC used
C9_Witness ==
    /\ pc = "done"
    /\ Truthy(results)
    /\ "sensitivity_table" \in shown
    /\ inputs.discount_rate # wacc
    /\ IsFinite(results.intrinsic_value)

\* C10: a run ends in exactly one of three outcomes: (1) a record with an fcf, and
\* only then calculate_wacc and dcf_valuation are invoked; (2) a record whose fcf is
\* None, the 'no FCF' error and no valuation; (3) no record, the 'no data' error and
\* no valuation.  Valuation, recommendation and sensitivity table are shown only in
\* (1) and only for a result that is not None; otherwise 'could not compute' is shown.
\* No run ends in an unhandled exception.
C10_ThreeOutcomes ==
    LET fd == financial_data
        record_with_fcf == ~fd.isNone /\ ~fd.fcf.isNone
        record_without_fcf == ~fd.isNone /\ fd.fcf.isNone
        valuation_shown ==
            \/ shown \cap {"valuation", "recommendation", "sensitivity_table"} # {}
            \/ recommendation # ""
            \/ sensitivity # NoTable
        outcome1 ==
            /\ record_with_fcf
            /\ calls = {"calculate_wacc", "dcf_valuation"}
            /\ shown \cap {"error_no_fcf", "error_no_data"} = {}
            /\ IF results.kind = "dict"
               THEN {"valuation", "recommendation", "sensitivity_table"} \subseteq shown
                    /\ "error_could_not_compute" \notin shown
               ELSE ~valuation_shown /\ "error_could_not_compute" \in shown
        outcome2 ==
            /\ record_without_fcf
            /\ calls = {}
            /\ "error_no_fcf" \in shown
            /\ "error_no_data" \notin shown
            /\ ~valuation_shown
        outcome3 ==
            /\ fd.isNone
            /\ calls = {}
            /\ "error_no_data" \in shown
            /\ "error_no_fcf" \notin shown
            /\ ~valuation_shown
    IN  /\ pc # "crashed"
        /\ pc \in {"fetch", "guard", "wacc", "dcf", "results", "sensitivity", "footer", "done"}
        /\ calls # {} => pc \notin {"fetch", "guard"} /\ record_with_fcf
        /\ valuation_shown => record_with_fcf /\ results.kind = "dict"
        /\ pc = "done" =>
             /\ outcome1 \/ outcome2 \/ outcome3
             /\ ~(outcome1 /\ outcome2) /\ ~(outcome1 /\ outcome3) /\ ~(outcome2 /\ outcome3)

\* C10 witness: a finished run of outcome (1) with the valuation shown
C10_Witness ==
    /\ pc = "done"
    /\ ~financial_data.isNone
    /\ ~financial_data.fcf.isNone
    /\ calls = {"calculate_wacc", "dcf_valuation"}
    /\ "valuation" \in shown

====
